---- MODULE Spec2Model ----
(***************************************************************************)
(* School administration backend (FastAPI + SQLAlchemy): the handlers of   *)
(* src/backend/routers as a state machine over the relational store of     *)
(* src/backend/schemas.py.                                                 *)
(*                                                                         *)
(* The store is five tables (users, assignments, submissions, messages,    *)
(* registration requests).  Every handler is one action; it leaves its     *)
(* typed outcome in `last`.  Outcomes: "ok", "Forbidden" (403),            *)
(* "NotFound" (404), "Conflict" (the handlers' 400 for a duplicate or an   *)
(* already processed request) and "error" (an exception no handler         *)
(* catches: the transport answers 500 and the session is not committed).   *)
(*                                                                         *)
(* Unhandled exceptions the handlers raise on every call that reaches the  *)
(* line, because the name they use is not a field of the class declared    *)
(* in schemas.py / models.py:                                              *)
(*   registration_requests.py:127  request.first_name (RegistrationRequest *)
(*                                 has username,email,name,role,...)       *)
(*   registration_requests.py:51   RegistrationRequest.created_at          *)
(*   assignments.py:164            submission.submission_text              *)
(*                                 (AssignmentSubmissionCreate has content,*)
(*                                 assignment_id)                          *)
(*   messages.py:19,152            message.to_user_id (MessageCreate has   *)
(*                                 receiver_id)                            *)
(*   messages.py:43,60,78,101,118  Message.to_user_id / from_user_id /     *)
(*                                 read / created_at (Message has          *)
(*                                 sender_id, receiver_id, is_read,        *)
(*                                 sent_at)                                *)
(* They are modelled as what they are: outcome "error", store unchanged.   *)
(***************************************************************************)
EXTENDS Integers, FiniteSets, Sequences, TLC

(* ------------------------------ bounds -------------------------------- *)
\* rows ever inserted into registration_requests
MaxRequests == 2
\* rows ever inserted into assignments
MaxAssignments == 1
\* rows ever inserted into assignment_submissions
MaxSubmissions == 3
\* requests in flight at once (concurrent specification)
MaxWorkers == 2

(* ------------------------------ inputs -------------------------------- *)
\* An e-mail address local@domain; email.split('@')[0] is its local part.
Email(l, d) == [local |-> l, domain |-> d]

\* registration_requests.py:111
EmailLocalPart(email) == email.local

CandidateUsernames == {"john", "admin"}
CandidateEmails == {Email("john", "a.com"), Email("john", "b.com"),
                    Email("admin", "school.com")}
\* RegistrationRequestBase.role is any string
CandidateRoles == {"teacher", "root"}
Candidates == [username : CandidateUsernames, email : CandidateEmails,
               role : CandidateRoles]
\* RegistrationRequestUpdate.status is any string
Decisions == {"approved", "rejected", "pending", "archived"}

ClassNames == {"10A", "all"}
Subjects == {"Math"}
\* AssignmentCreate: the writable fields of an assignment
AssignmentData == [class_name : ClassNames, subject : Subjects]
\* AssignmentSubmissionGrade: grade, and feedback when given
GradeData == { [grade |-> "A", feedback |-> "none"],
               [grade |-> "B", feedback |-> "good"] }
\* an optional query parameter that was not sent
NoFilter == ""
\* class_name and subject of GET assignments: a class with an assignment, a
\* class without one, a subject with none, or nothing
ClassFilters == {"10A", "10B", NoFilter}
SubjectFilters == {"Math", "Art", NoFilter}
\* receiver ids a caller names: a teacher, nobody, unset (0)
ReceiverIds == {0, 2, 9}
Workers == 1..MaxWorkers

VARIABLES users, assignments, submissions, messages, requests,
          nextAssignmentId, nextRequestId, inflight, last

vars == <<users, assignments, submissions, messages, requests,
          nextAssignmentId, nextRequestId, inflight, last>>

store == <<users, assignments, submissions, messages, requests,
           nextAssignmentId, nextRequestId>>

(* ------------------------------ schema -------------------------------- *)
\* main.py:52-55, the four demo accounts of seed_default_users
SeedUsers ==
  { [id |-> 1, username |-> "admin",    email |-> Email("admin", "school.com"),    role |-> "admin"],
    [id |-> 2, username |-> "teacher1", email |-> Email("teacher1", "school.com"), role |-> "teacher"],
    [id |-> 3, username |-> "parent1",  email |-> Email("parent1", "school.com"),  role |-> "parent"],
    [id |-> 4, username |-> "student1", email |-> Email("student1", "school.com"), role |-> "student"] }

\* users.id is an autoincrement key and no handler deletes a user
NewUserId == Cardinality(users) + 1
NewSubmissionId == Cardinality(submissions) + 1

\* schemas.py:10-11: username and email carry unique=True; an INSERT that
\* breaks either raises IntegrityError at commit.
UserUniqueViolation(u) ==
  \E v \in users : v.username = u.username \/ v.email = u.email

\* what the caller of the last request saw: the handler, the caller's id
\* (0 for a public route), the id in the path (0 when the route has none)
\* and the typed outcome
Outcome(op, actor, target, result) ==
  [op |-> op, actor |-> actor, target |-> target, result |-> result]

\* A handler that ends without committing anything.
Reply(op, actor, target, result) ==
  /\ last' = Outcome(op, actor, target, result)
  /\ UNCHANGED <<store, inflight>>

RequestIds == 1..MaxRequests
AssignmentIds == 1..MaxAssignments
SubmissionIds == 1..MaxSubmissions

Init ==
  /\ users = SeedUsers
  /\ assignments = {}
  /\ submissions = {}
  /\ messages = {}
  /\ requests = {}
  /\ nextAssignmentId = 1
  /\ nextRequestId = 1
  /\ inflight = {}
  /\ last = Outcome("startup", 0, 0, "ok")

(* ------------------------- registration workflow ----------------------- *)
NewRequest(c) ==
  [id |-> nextRequestId, username |-> c.username, email |-> c.email,
   role |-> c.role, status |-> "pending", processed |-> FALSE]

InsertRequest(op, c) ==
  /\ nextRequestId <= MaxRequests
  /\ requests' = requests \cup {NewRequest(c)}
  /\ nextRequestId' = nextRequestId + 1
  /\ last' = Outcome(op, 0, nextRequestId, "ok")
  /\ UNCHANGED <<users, assignments, submissions, messages, nextAssignmentId, inflight>>

\* auth.py:49-51
AuthIntakeUserExists(c) ==
  \E u \in users : u.username = c.username \/ u.email = c.email

\* auth.py:60-63
AuthIntakePendingExists(c) ==
  \E r \in requests :
     /\ r.username = c.username \/ r.email = c.email
     /\ r.status = "pending"

\* POST /api/auth/register-request (public)
auth_create_registration_request(c) ==
  IF AuthIntakeUserExists(c)
    THEN Reply("auth_intake", 0, 0, "Conflict")
  ELSE IF AuthIntakePendingExists(c)
    THEN Reply("auth_intake", 0, 0, "Conflict")
  ELSE InsertRequest("auth_intake", c)

\* The same handler as two steps of a request served by worker w beside
\* other requests: the two SELECTs of auth.py:49-63, then the INSERT and
\* commit of lines 71-73.
auth_intake_check(w, c) ==
  /\ ~ \E q \in inflight : q.worker = w
  /\ IF AuthIntakeUserExists(c) \/ AuthIntakePendingExists(c)
       THEN Reply("auth_intake", 0, 0, "Conflict")
       ELSE /\ inflight' = inflight \cup {[worker |-> w, candidate |-> c]}
            /\ UNCHANGED <<store, last>>

\* the insert refused when a pending request for the candidate exists by then
auth_intake_commit_rechecked(w) ==
  \E q \in inflight :
     /\ q.worker = w
     /\ inflight' = inflight \ {q}
     /\ IF AuthIntakePendingExists(q.candidate)
          THEN /\ last' = Outcome("auth_intake", 0, 0, "Conflict")
               /\ UNCHANGED store
          ELSE /\ nextRequestId <= MaxRequests
               /\ requests' = requests \cup {NewRequest(q.candidate)}
               /\ nextRequestId' = nextRequestId + 1
               /\ last' = Outcome("auth_intake", 0, nextRequestId, "ok")
               /\ UNCHANGED <<users, assignments, submissions, messages,
                              nextAssignmentId>>

\* auth.py:71-73.  registration_requests has no unique index on username
\* or email (schemas.py:69-79), so the INSERT is not refused when another
\* request has inserted a pending row for them meanwhile.
auth_intake_commit(w) ==
  \E q \in inflight :
     /\ q.worker = w
     /\ inflight' = inflight \ {q}
     /\ nextRequestId <= MaxRequests
     /\ requests' = requests \cup {NewRequest(q.candidate)}
     /\ nextRequestId' = nextRequestId + 1
     /\ last' = Outcome("auth_intake", 0, nextRequestId, "ok")
     /\ UNCHANGED <<users, assignments, submissions, messages, nextAssignmentId>>

\* registration_requests.py:18-20
RrIntakeRequestExists(c) == \E r \in requests : r.email = c.email

\* POST /api/registration-requests/registration-requests/ (public)
rr_create_registration_request(c) ==
  IF RrIntakeRequestExists(c)
    THEN Reply("rr_intake", 0, 0, "Conflict")
  ELSE InsertRequest("rr_intake", c)

RequestById(id) == CHOOSE r \in requests : r.id = id

\* auth.py:116-133: the status is whatever string the body carries; the
\* account is added only for "approved"; the commit fails as a whole when
\* the new account breaks a unique index of users.
ProcessCommit(actor, r, decision) ==
  LET r2 == [r EXCEPT !.status = decision, !.processed = TRUE]
      u  == [id |-> NewUserId, username |-> r.username, email |-> r.email,
             role |-> r.role]
  IN IF decision = "approved" /\ UserUniqueViolation(u)
       THEN Reply("process", actor.id, r.id, "error")
       ELSE /\ requests' = (requests \ {r}) \cup {r2}
            /\ users' = IF decision = "approved" THEN users \cup {u} ELSE users
            /\ last' = Outcome("process", actor.id, r.id, "ok")
            /\ UNCHANGED <<assignments, submissions, messages,
                           nextAssignmentId, nextRequestId, inflight>>

\* The same handler with the gate of line 97 opened to teachers.
auth_process_by_staff(actor, id, decision) ==
  IF actor.role \notin {"admin", "teacher"}
    THEN Reply("process", actor.id, id, "Forbidden")
  ELSE IF ~ \E r \in requests : r.id = id
    THEN Reply("process", actor.id, id, "NotFound")
  ELSE IF RequestById(id).status # "pending"
    THEN Reply("process", actor.id, id, "Conflict")
  ELSE ProcessCommit(actor, RequestById(id), decision)

\* PUT /api/auth/register-requests/{request_id}
auth_process_registration_request(actor, id, decision) ==
  IF actor.role # "admin"
    THEN Reply("process", actor.id, id, "Forbidden")
  ELSE IF ~ \E r \in requests : r.id = id
    THEN Reply("process", actor.id, id, "NotFound")
  ELSE IF RequestById(id).status # "pending"
    THEN Reply("process", actor.id, id, "Conflict")
  ELSE ProcessCommit(actor, RequestById(id), decision)

\* The review handlers as two steps of a request served by worker w beside
\* other requests: the role gate, the lookup and the status test (auth.py:
\* 97-114, registration_requests.py:85-105 and 148-168), then the writes
\* and the commit.
ReviewCheck(op, actor, id) ==
  IF actor.role # "admin" THEN "Forbidden"
  ELSE IF ~ \E r \in requests : r.id = id THEN "NotFound"
  ELSE IF RequestById(id).status # "pending" THEN "Conflict"
  ELSE "pass"

review_check(w, op, actor, id, decision) ==
  /\ ~ \E q \in inflight : q.worker = w
  /\ IF ReviewCheck(op, actor, id) # "pass"
       THEN Reply(op, actor.id, id, ReviewCheck(op, actor, id))
       ELSE /\ inflight' = inflight \cup
                 {[worker |-> w, route |-> op, actor |-> actor.id,
                   request |-> RequestById(id), decision |-> decision]}
            /\ UNCHANGED <<store, last>>

auth_process_check(w, actor, id, decision) ==
  review_check(w, "process", actor, id, decision)

rr_approve_check(w, actor, id) == review_check(w, "approve", actor, id, "approved")

rr_reject_check(w, actor, id) == review_check(w, "reject", actor, id, "rejected")

\* auth.py:116-133 on the row loaded by the check: the UPDATE is keyed by
\* the id alone, so it overwrites whatever status has been committed
\* meanwhile; the INSERT of the account fails the whole commit when it
\* breaks a unique index of users.
auth_process_commit(w) ==
  \E q \in inflight :
     /\ q.worker = w /\ q.route = "process"
     /\ inflight' = inflight \ {q}
     /\ LET u == [id |-> NewUserId, username |-> q.request.username,
                  email |-> q.request.email, role |-> q.request.role]
        IN IF q.decision = "approved" /\ UserUniqueViolation(u)
             THEN /\ last' = Outcome("process", q.actor, q.request.id, "error")
                  /\ UNCHANGED store
             ELSE /\ requests' = {r \in requests : r.id # q.request.id} \cup
                       {[q.request EXCEPT !.status = q.decision, !.processed = TRUE]}
                  /\ users' = IF q.decision = "approved" THEN users \cup {u} ELSE users
                  /\ last' = Outcome("process", q.actor, q.request.id, "ok")
                  /\ UNCHANGED <<assignments, submissions, messages,
                                 nextAssignmentId, nextRequestId>>

\* registration_requests.py:107-127: AttributeError at line 127
rr_approve_commit(w) ==
  \E q \in inflight :
     /\ q.worker = w /\ q.route = "approve"
     /\ inflight' = inflight \ {q}
     /\ last' = Outcome("approve", q.actor, q.request.id, "error")
     /\ UNCHANGED store

\* registration_requests.py:170-171
rr_reject_commit(w) ==
  \E q \in inflight :
     /\ q.worker = w /\ q.route = "reject"
     /\ inflight' = inflight \ {q}
     /\ requests' = {r \in requests : r.id # q.request.id} \cup
                       {[q.request EXCEPT !.status = "rejected"]}
     /\ last' = Outcome("reject", q.actor, q.request.id, "ok")
     /\ UNCHANGED <<users, assignments, submissions, messages,
                    nextAssignmentId, nextRequestId>>

UsernameTaken(name) == \E u \in users : u.username = name

\* registration_requests.py:112-118: the while loop, counter from k upward
RECURSIVE UniqueUsernameFrom(_, _)
UniqueUsernameFrom(original, k) ==
  IF UsernameTaken(original \o ToString(k))
    THEN UniqueUsernameFrom(original, k + 1)
    ELSE original \o ToString(k)

\* the derivation with a single test in place of the loop
DeriveUsernameOnce(email) ==
  IF UsernameTaken(EmailLocalPart(email))
    THEN EmailLocalPart(email) \o ToString(1)
    ELSE EmailLocalPart(email)

\* registration_requests.py:111-118
DeriveUsername(email) ==
  IF UsernameTaken(EmailLocalPart(email))
    THEN UniqueUsernameFrom(EmailLocalPart(email), 1)
    ELSE EmailLocalPart(email)

\* PUT /api/registration-requests/registration-requests/{id}/approve
\* Line 127 reads request.first_name, which RegistrationRequest does not
\* have: AttributeError before db.add, nothing is committed.
rr_approve_registration_request(actor, id) ==
  IF actor.role # "admin"
    THEN Reply("approve", actor.id, id, "Forbidden")
  ELSE IF ~ \E r \in requests : r.id = id
    THEN Reply("approve", actor.id, id, "NotFound")
  ELSE IF RequestById(id).status # "pending"
    THEN Reply("approve", actor.id, id, "Conflict")
  ELSE /\ DeriveUsername(RequestById(id).email) \in STRING
       /\ Reply("approve", actor.id, id, "error")

\* PUT /api/registration-requests/registration-requests/{id}/reject
rr_reject_registration_request(actor, id) ==
  IF actor.role # "admin"
    THEN Reply("reject", actor.id, id, "Forbidden")
  ELSE IF ~ \E r \in requests : r.id = id
    THEN Reply("reject", actor.id, id, "NotFound")
  ELSE IF RequestById(id).status # "pending"
    THEN Reply("reject", actor.id, id, "Conflict")
  ELSE /\ requests' = (requests \ {RequestById(id)})
                        \cup {[RequestById(id) EXCEPT !.status = "rejected"]}
       /\ last' = Outcome("reject", actor.id, id, "ok")
       /\ UNCHANGED <<users, assignments, submissions, messages,
                      nextAssignmentId, nextRequestId, inflight>>

\* DELETE /api/registration-requests/registration-requests/{id}
rr_delete_registration_request(actor, id) ==
  IF actor.role # "admin"
    THEN Reply("delete_request", actor.id, id, "Forbidden")
  ELSE IF ~ \E r \in requests : r.id = id
    THEN Reply("delete_request", actor.id, id, "NotFound")
  ELSE /\ requests' = requests \ {RequestById(id)}
       /\ last' = Outcome("delete_request", actor.id, id, "ok")
       /\ UNCHANGED <<users, assignments, submissions, messages,
                      nextAssignmentId, nextRequestId, inflight>>

(* --------------------------- assignment workflow ----------------------- *)
AssignmentExists(aid) == \E a \in assignments : a.id = aid
AssignmentById(aid) == CHOOSE a \in assignments : a.id = aid

\* the creation gate widened to every role but student
CanCreateUnlessStudent(role) == role # "student"

\* teachers.py:18 and assignments.py:18
CanCreateAssignment(role) == role \in {"teacher", "admin"}

\* POST /api/teachers/assignments and POST /api/assignments/assignments/
\* (teachers.py:11-31 and assignments.py:11-31 are the same handler)
create_assignment(op, actor, data) ==
  IF ~ CanCreateAssignment(actor.role)
    THEN Reply(op, actor.id, 0, "Forbidden")
  ELSE /\ nextAssignmentId <= MaxAssignments
       /\ assignments' = assignments \cup
            {[id |-> nextAssignmentId, created_by_id |-> actor.id,
              class_name |-> data.class_name, subject |-> data.subject]}
       /\ nextAssignmentId' = nextAssignmentId + 1
       /\ last' = Outcome(op, actor.id, nextAssignmentId, "ok")
       /\ UNCHANGED <<users, submissions, messages, requests, nextRequestId, inflight>>

teachers_create_assignment(actor, data) ==
  create_assignment("teachers_create_assignment", actor, data)

assignments_create_assignment(actor, data) ==
  create_assignment("assignments_create_assignment", actor, data)

\* the ownership test passed by every teacher
MayChangeAnyTeacher(actor, a) ==
  ~ (a.created_by_id # actor.id /\ actor.role \notin {"admin", "teacher"})

\* the ownership test without the admin bypass
MayChangeOwnerOnly(actor, a) == a.created_by_id = actor.id

\* assignments.py:89 and :116
MayChangeAssignment(actor, a) ==
  ~ (a.created_by_id # actor.id /\ actor.role # "admin")

\* an update that stamps the caller as the creator, as create does
update_assignment_restamps(actor, aid, data) ==
  IF ~ AssignmentExists(aid)
    THEN Reply("update_assignment", actor.id, aid, "NotFound")
  ELSE IF ~ MayChangeAssignment(actor, AssignmentById(aid))
    THEN Reply("update_assignment", actor.id, aid, "Forbidden")
  ELSE /\ assignments' = (assignments \ {AssignmentById(aid)}) \cup
            {[AssignmentById(aid) EXCEPT !.class_name = data.class_name,
                                         !.subject = data.subject,
                                         !.created_by_id = actor.id]}
       /\ last' = Outcome("update_assignment", actor.id, aid, "ok")
       /\ UNCHANGED <<users, submissions, messages, requests,
                      nextAssignmentId, nextRequestId, inflight>>

\* PUT /api/assignments/assignments/{assignment_id}
update_assignment(actor, aid, data) ==
  IF ~ AssignmentExists(aid)
    THEN Reply("update_assignment", actor.id, aid, "NotFound")
  ELSE IF ~ MayChangeAssignment(actor, AssignmentById(aid))
    THEN Reply("update_assignment", actor.id, aid, "Forbidden")
  ELSE /\ assignments' = (assignments \ {AssignmentById(aid)}) \cup
            {[AssignmentById(aid) EXCEPT !.class_name = data.class_name,
                                         !.subject = data.subject]}
       /\ last' = Outcome("update_assignment", actor.id, aid, "ok")
       /\ UNCHANGED <<users, submissions, messages, requests,
                      nextAssignmentId, nextRequestId, inflight>>

\* schemas.py:37,43: Assignment.submissions has no delete cascade, so the
\* unit of work sets assignment_id of the assignment's submissions to NULL
\* when the assignment is deleted, and the column is nullable=False: the
\* commit raises IntegrityError.
DeleteBreaksSubmissions(aid) == \E s \in submissions : s.assignment_id = aid

\* DELETE /api/assignments/assignments/{assignment_id}
\* The same handler over a store that lets the parent row go while
\* submissions still name it.
delete_assignment_leaves_submissions(actor, aid) ==
  IF ~ AssignmentExists(aid)
    THEN Reply("delete_assignment", actor.id, aid, "NotFound")
  ELSE IF ~ MayChangeAssignment(actor, AssignmentById(aid))
    THEN Reply("delete_assignment", actor.id, aid, "Forbidden")
  ELSE /\ assignments' = assignments \ {AssignmentById(aid)}
       /\ last' = Outcome("delete_assignment", actor.id, aid, "ok")
       /\ UNCHANGED <<users, submissions, messages, requests,
                      nextAssignmentId, nextRequestId, inflight>>

delete_assignment(actor, aid) ==
  IF ~ AssignmentExists(aid)
    THEN Reply("delete_assignment", actor.id, aid, "NotFound")
  ELSE IF ~ MayChangeAssignment(actor, AssignmentById(aid))
    THEN Reply("delete_assignment", actor.id, aid, "Forbidden")
  ELSE IF DeleteBreaksSubmissions(aid)
    THEN Reply("delete_assignment", actor.id, aid, "error")
  ELSE /\ assignments' = assignments \ {AssignmentById(aid)}
       /\ last' = Outcome("delete_assignment", actor.id, aid, "ok")
       /\ UNCHANGED <<users, submissions, messages, requests,
                      nextAssignmentId, nextRequestId, inflight>>

\* the submit gate widened to admins
CanSubmitOrAdmin(role) == role \in {"student", "admin"}

\* students.py:34 and assignments.py:135
CanSubmit(role) == role = "student"

\* students.py:49-52 and assignments.py:150-153
AlreadySubmitted(aid, sid) ==
  \E s \in submissions : s.assignment_id = aid /\ s.student_id = sid

\* students.py:34-58 and assignments.py:135-159: the checks of submit, in
\* the handlers' order; "pass" when none raises.
SubmitCheck(actor, aid) ==
  IF ~ CanSubmit(actor.role) THEN "Forbidden"
  ELSE IF ~ AssignmentExists(aid) THEN "NotFound"
  ELSE IF AlreadySubmitted(aid, actor.id) THEN "Conflict"
  ELSE "pass"

\* students.py:60-64: grade and feedback start unset
NewSubmission(sid, aid) ==
  [id |-> NewSubmissionId, assignment_id |-> aid, student_id |-> sid,
   grade |-> "none", feedback |-> "none"]

\* students.py:60-67
InsertSubmission(op, actor, aid) ==
  /\ Cardinality(submissions) < MaxSubmissions
  /\ submissions' = submissions \cup {NewSubmission(actor.id, aid)}
  /\ last' = Outcome(op, actor.id, aid, "ok")
  /\ UNCHANGED <<users, assignments, messages, requests,
                 nextAssignmentId, nextRequestId, inflight>>

\* a submit that inserts the row before it tests for a duplicate
students_submit_insert_first(actor, aid) ==
  IF SubmitCheck(actor, aid) \in {"Forbidden", "NotFound"}
    THEN Reply("students_submit", actor.id, aid, SubmitCheck(actor, aid))
  ELSE /\ Cardinality(submissions) < MaxSubmissions
       /\ submissions' = submissions \cup {NewSubmission(actor.id, aid)}
       /\ last' = Outcome("students_submit", actor.id, aid,
                          IF SubmitCheck(actor, aid) = "Conflict" THEN "Conflict" ELSE "ok")
       /\ UNCHANGED <<users, assignments, messages, requests,
                      nextAssignmentId, nextRequestId, inflight>>

\* POST /api/students/assignments/{assignment_id}/submit
students_submit_assignment(actor, aid) ==
  IF SubmitCheck(actor, aid) # "pass"
    THEN Reply("students_submit", actor.id, aid, SubmitCheck(actor, aid))
  ELSE InsertSubmission("students_submit", actor, aid)

\* POST /api/assignments/assignments/{assignment_id}/submissions
\* Lines 161-166 build the row from submission.submission_text and
\* submission.file_path, which AssignmentSubmissionCreate does not have:
\* AttributeError once the three checks have passed.
assignments_submit_assignment(actor, aid) ==
  IF SubmitCheck(actor, aid) # "pass"
    THEN Reply("assignments_submit", actor.id, aid, SubmitCheck(actor, aid))
  ELSE Reply("assignments_submit", actor.id, aid, "error")

\* The same handler as two steps of a request served by worker w, as the
\* threadpool runs it beside other requests: the three SELECTs of lines
\* 41-52 (students.py:34-58), then the INSERT and commit of lines 60-67.
students_submit_check(w, actor, aid) ==
  /\ ~ \E q \in inflight : q.worker = w
  /\ IF SubmitCheck(actor, aid) # "pass"
       THEN Reply("students_submit", actor.id, aid, SubmitCheck(actor, aid))
       ELSE /\ inflight' = inflight \cup
                 {[worker |-> w, student_id |-> actor.id, assignment_id |-> aid]}
            /\ UNCHANGED <<store, last>>

\* students.py:60-67.  assignment_submissions has no unique index on
\* (assignment_id, student_id) (schemas.py:39-48), so the INSERT is not
\* refused when another request has inserted the pair meanwhile.  Whether
\* the store refuses a row whose assignment has been deleted meanwhile
\* depends on its foreign-key enforcement, which the engine decides: both
\* outcomes are allowed.
students_submit_commit(w) ==
  \E q \in inflight :
     /\ q.worker = w
     /\ inflight' = inflight \ {q}
     /\ \/ /\ Cardinality(submissions) < MaxSubmissions
           /\ submissions' = submissions \cup {NewSubmission(q.student_id, q.assignment_id)}
           /\ last' = Outcome("students_submit", q.student_id, q.assignment_id, "ok")
           /\ UNCHANGED <<users, assignments, messages, requests,
                          nextAssignmentId, nextRequestId>>
        \/ /\ ~ AssignmentExists(q.assignment_id)
           /\ last' = Outcome("students_submit", q.student_id, q.assignment_id, "error")
           /\ UNCHANGED store

\* teachers.py:61, :94 and assignments.py:179
CanViewSubmissions(role) == role \in {"teacher", "admin"}

\* GET /api/teachers/assignments/{assignment_id}/submissions
teachers_get_assignment_submissions(actor, aid) ==
  IF ~ CanViewSubmissions(actor.role)
    THEN Reply("teachers_view_submissions", actor.id, aid, "Forbidden")
  ELSE IF ~ AssignmentExists(aid)
    THEN Reply("teachers_view_submissions", actor.id, aid, "NotFound")
  ELSE IF actor.role = "teacher" /\ AssignmentById(aid).created_by_id # actor.id
    THEN Reply("teachers_view_submissions", actor.id, aid, "Forbidden")
  ELSE Reply("teachers_view_submissions", actor.id, aid, "ok")

\* GET /api/assignments/assignments/{assignment_id}/submissions
assignments_get_assignment_submissions(actor, aid) ==
  IF ~ CanViewSubmissions(actor.role)
    THEN Reply("assignments_view_submissions", actor.id, aid, "Forbidden")
  ELSE Reply("assignments_view_submissions", actor.id, aid, "ok")

SubmissionById(sid) == CHOOSE s \in submissions : s.id = sid

\* grading that refuses a submission that already has a grade
grade_submission_once(actor, sid, grade, feedback) ==
  IF ~ CanViewSubmissions(actor.role)
    THEN Reply("grade", actor.id, sid, "Forbidden")
  ELSE IF ~ \E s \in submissions : s.id = sid
    THEN Reply("grade", actor.id, sid, "NotFound")
  ELSE IF actor.role = "teacher" /\ ~ AssignmentExists(SubmissionById(sid).assignment_id)
    THEN Reply("grade", actor.id, sid, "error")
  ELSE IF actor.role = "teacher"
          /\ AssignmentById(SubmissionById(sid).assignment_id).created_by_id # actor.id
    THEN Reply("grade", actor.id, sid, "Forbidden")
  ELSE IF SubmissionById(sid).grade # "none"
    THEN Reply("grade", actor.id, sid, "Conflict")
  ELSE /\ submissions' = (submissions \ {SubmissionById(sid)}) \cup
            {[SubmissionById(sid) EXCEPT !.grade = grade, !.feedback = feedback]}
       /\ last' = Outcome("grade", actor.id, sid, "ok")
       /\ UNCHANGED <<users, assignments, messages, requests,
                      nextAssignmentId, nextRequestId, inflight>>

\* grading without the ownership test of lines 111-117
grade_submission_any_teacher(actor, sid, grade, feedback) ==
  IF ~ CanViewSubmissions(actor.role)
    THEN Reply("grade", actor.id, sid, "Forbidden")
  ELSE IF ~ \E s \in submissions : s.id = sid
    THEN Reply("grade", actor.id, sid, "NotFound")
  ELSE /\ submissions' = (submissions \ {SubmissionById(sid)}) \cup
            {[SubmissionById(sid) EXCEPT !.grade = grade, !.feedback = feedback]}
       /\ last' = Outcome("grade", actor.id, sid, "ok")
       /\ UNCHANGED <<users, assignments, messages, requests,
                      nextAssignmentId, nextRequestId, inflight>>

\* PUT /api/teachers/submissions/{submission_id}/grade
grade_submission(actor, sid, grade, feedback) ==
  IF ~ CanViewSubmissions(actor.role)
    THEN Reply("grade", actor.id, sid, "Forbidden")
  ELSE IF ~ \E s \in submissions : s.id = sid
    THEN Reply("grade", actor.id, sid, "NotFound")
  ELSE IF actor.role = "teacher" /\ ~ AssignmentExists(SubmissionById(sid).assignment_id)
    THEN Reply("grade", actor.id, sid, "error")
  ELSE IF actor.role = "teacher"
          /\ AssignmentById(SubmissionById(sid).assignment_id).created_by_id # actor.id
    THEN Reply("grade", actor.id, sid, "Forbidden")
  ELSE /\ submissions' = (submissions \ {SubmissionById(sid)}) \cup
            {[SubmissionById(sid) EXCEPT !.grade = grade, !.feedback = feedback]}
       /\ last' = Outcome("grade", actor.id, sid, "ok")
       /\ UNCHANGED <<users, assignments, messages, requests,
                      nextAssignmentId, nextRequestId, inflight>>

(* ------------------------------- messaging ----------------------------- *)
MessageIds == 1..2
MessageExists(mid) == \E m \in messages : m.id = mid

\* POST /api/messages/messages/
\* Line 19 reads message.to_user_id; MessageCreate (models.py:76-77) has
\* receiver_id only: AttributeError for every caller.
send_message(actor, receiver_id) ==
  Reply("send_message", actor.id, 0, "error")

\* the access check answered before the lookup
get_message_access_first(actor, mid) ==
  IF ~ \E m \in messages : m.id = mid /\ actor.id \in {m.sender_id, m.receiver_id}
    THEN Reply("get_message", actor.id, mid, "Forbidden")
  ELSE Reply("get_message", actor.id, mid, "error")

\* GET /api/messages/messages/{message_id}
\* The lookup by Message.id comes first (404); line 78 then reads
\* message.from_user_id, which Message (schemas.py:54-63) does not have.
get_message(actor, mid) ==
  IF ~ MessageExists(mid)
    THEN Reply("get_message", actor.id, mid, "NotFound")
  ELSE Reply("get_message", actor.id, mid, "error")

\* PUT /api/messages/messages/{message_id}/read
mark_message_as_read(actor, mid) ==
  IF ~ MessageExists(mid)
    THEN Reply("mark_read", actor.id, mid, "NotFound")
  ELSE Reply("mark_read", actor.id, mid, "error")

\* GET /api/messages/messages/unread/count
\* The filter of lines 117-120 names Message.to_user_id and Message.read,
\* which the mapped class (schemas.py:54-63: receiver_id, is_read) does not
\* have: AttributeError for every caller, no count is returned.
get_unread_count(actor) ==
  Reply("unread_count", actor.id, 0, "error")

\* messages.py:145
CanSendToTeacher(role) == role \in {"student", "parent"}

\* POST /api/messages/messages/send-to-teacher
\* Past the role gate, line 152 reads message.to_user_id: AttributeError.
send_message_to_teacher(actor, receiver_id) ==
  IF ~ CanSendToTeacher(actor.role)
    THEN Reply("send_to_teacher", actor.id, 0, "Forbidden")
  ELSE Reply("send_to_teacher", actor.id, 0, "error")

(* ------------------------- admin-only read routes ---------------------- *)
\* auth.py:36, :80, :97 and registration_requests.py:41, :60, :85, :148, :182
IsAdmin(role) == role = "admin"

\* GET /api/auth/users
get_all_users(actor) ==
  IF ~ IsAdmin(actor.role)
    THEN Reply("get_all_users", actor.id, 0, "Forbidden")
  ELSE Reply("get_all_users", actor.id, 0, "ok")

\* GET /api/auth/register-requests
auth_get_registration_requests(actor) ==
  IF ~ IsAdmin(actor.role)
    THEN Reply("auth_view_requests", actor.id, 0, "Forbidden")
  ELSE Reply("auth_view_requests", actor.id, 0, "ok")

\* GET /api/registration-requests/registration-requests/{request_id}
rr_get_registration_request(actor, id) ==
  IF ~ IsAdmin(actor.role)
    THEN Reply("rr_view_request", actor.id, id, "Forbidden")
  ELSE IF ~ \E r \in requests : r.id = id
    THEN Reply("rr_view_request", actor.id, id, "NotFound")
  ELSE Reply("rr_view_request", actor.id, id, "ok")

(* --------------------------- role-gated listings ----------------------- *)
\* A listing that ends in success: the outcome carries the rows returned.
ListReply(op, actor, listed) ==
  /\ last' = [op |-> op, actor |-> actor, target |-> 0, result |-> "ok",
              listed |-> listed]
  /\ UNCHANGED <<store, inflight>>

\* GET /api/students/assignments (students.py:17-24): every assignment
get_student_assignments(actor) ==
  IF actor.role # "student"
    THEN Reply("get_student_assignments", actor.id, 0, "Forbidden")
  ELSE ListReply("get_student_assignments", actor.id, assignments)

\* assignments.py:43-52, the base predicate by role; a query parameter that
\* was not sent is None, here NoFilter
ListedForRole(actor, class_name) ==
  IF actor.role = "student"
    THEN IF class_name # NoFilter
           THEN {a \in assignments : a.class_name = class_name \/ a.class_name = "all"}
           ELSE assignments
  ELSE IF actor.role = "teacher"
    THEN {a \in assignments : a.created_by_id = actor.id}
  ELSE assignments

\* GET /api/assignments/assignments/ (assignments.py:33-57)
get_assignments(actor, class_name, subject) ==
  ListReply("get_assignments", actor.id,
            IF subject # NoFilter
              THEN {a \in ListedForRole(actor, class_name) : a.subject = subject}
              ELSE ListedForRole(actor, class_name))

\* GET /api/students/submissions (students.py:76)
get_student_submissions(actor) ==
  IF actor.role # "student"
    THEN Reply("get_student_submissions", actor.id, 0, "Forbidden")
  ELSE Reply("get_student_submissions", actor.id, 0, "ok")

\* GET /api/teachers/assignments (teachers.py:39)
get_teacher_assignments(actor) ==
  IF ~ CanViewSubmissions(actor.role)
    THEN Reply("get_teacher_assignments", actor.id, 0, "Forbidden")
  ELSE Reply("get_teacher_assignments", actor.id, 0, "ok")

\* GET /api/assignments/assignments/{assignment_id}
get_assignment(actor, aid) ==
  IF ~ AssignmentExists(aid)
    THEN Reply("get_assignment", actor.id, aid, "NotFound")
  ELSE Reply("get_assignment", actor.id, aid, "ok")

\* The registration workflow on its own, over every candidate.
NextRegistration ==
  \/ \E c \in Candidates : auth_create_registration_request(c)
  \/ \E c \in Candidates : rr_create_registration_request(c)
  \/ \E actor \in users, id \in RequestIds, d \in Decisions :
        auth_process_registration_request(actor, id, d)
  \/ \E actor \in users, id \in RequestIds : rr_approve_registration_request(actor, id)
  \/ \E actor \in users, id \in RequestIds : rr_reject_registration_request(actor, id)
  \/ \E actor \in users, id \in RequestIds : rr_delete_registration_request(actor, id)

SpecRegistration == Init /\ [][NextRegistration]_vars

\* The candidate through whom an account beyond the seed comes to exist in
\* the specification of the whole service, and the assignment body its
\* callers send. There a request is taken in and approved; every other
\* review outcome is explored in SpecRegistration.
EnrolCandidates ==
  { [username |-> "john", email |-> Email("john", "a.com"), role |-> "teacher"] }

EnrolAssignmentData == { [class_name |-> "10A", subject |-> "Math"] }

NextEnrol ==
  \/ \E c \in EnrolCandidates : auth_create_registration_request(c)
  \/ \E actor \in users, id \in RequestIds :
        auth_process_registration_request(actor, id, "approved")
  \/ \E actor \in users, id \in RequestIds : rr_approve_registration_request(actor, id)

NextAssignments ==
  \/ \E actor \in users, data \in EnrolAssignmentData : teachers_create_assignment(actor, data)
  \/ \E actor \in users, data \in EnrolAssignmentData : assignments_create_assignment(actor, data)
  \/ \E actor \in users, aid \in AssignmentIds, data \in EnrolAssignmentData :
        update_assignment(actor, aid, data)
  \/ \E actor \in users, aid \in AssignmentIds : delete_assignment(actor, aid)
  \/ \E actor \in users, aid \in AssignmentIds : students_submit_assignment(actor, aid)
  \/ \E actor \in users, aid \in AssignmentIds : assignments_submit_assignment(actor, aid)
  \/ \E actor \in users, aid \in AssignmentIds :
        teachers_get_assignment_submissions(actor, aid)
  \/ \E actor \in users, aid \in AssignmentIds :
        assignments_get_assignment_submissions(actor, aid)
  \/ \E actor \in users, sid \in SubmissionIds, g \in GradeData :
        grade_submission(actor, sid, g.grade, g.feedback)

NextMessaging ==
  \/ \E actor \in users, rid \in ReceiverIds \ {0} : send_message(actor, rid)
  \/ \E actor \in users, mid \in MessageIds : get_message(actor, mid)
  \/ \E actor \in users, mid \in MessageIds : mark_message_as_read(actor, mid)
  \/ \E actor \in users, rid \in ReceiverIds : send_message_to_teacher(actor, rid)
  \/ \E actor \in users : get_unread_count(actor)

NextReads ==
  \/ \E actor \in users : get_all_users(actor)
  \/ \E actor \in users : auth_get_registration_requests(actor)
  \/ \E actor \in users, id \in RequestIds : rr_get_registration_request(actor, id)
  \/ \E actor \in users : get_student_assignments(actor)
  \/ \E actor \in users : get_student_submissions(actor)
  \/ \E actor \in users : get_teacher_assignments(actor)
  \/ \E actor \in users, aid \in AssignmentIds : get_assignment(actor, aid)

\* Requests served concurrently: submit as its two steps, beside the
\* handlers that create and delete assignments.
NextRace ==
  \/ \E actor \in users, data \in AssignmentData : teachers_create_assignment(actor, data)
  \/ \E actor \in users, aid \in AssignmentIds : delete_assignment(actor, aid)
  \/ \E w \in Workers, actor \in users, aid \in AssignmentIds :
        students_submit_check(w, actor, aid)
  \/ \E w \in Workers : students_submit_commit(w)

SpecRace == Init /\ [][NextRace]_vars

\* The assignment workflow on its own, over every assignment body and
\* every grade, with the seeded accounts as callers.
NextCoursework ==
  \/ \E actor \in users, data \in AssignmentData : teachers_create_assignment(actor, data)
  \/ \E actor \in users, data \in AssignmentData : assignments_create_assignment(actor, data)
  \/ \E actor \in users, aid \in AssignmentIds, data \in AssignmentData :
        update_assignment(actor, aid, data)
  \/ \E actor \in users, aid \in AssignmentIds : delete_assignment(actor, aid)
  \/ \E actor \in users, aid \in AssignmentIds : students_submit_assignment(actor, aid)
  \/ \E actor \in users, sid \in SubmissionIds, g \in GradeData :
        grade_submission(actor, sid, g.grade, g.feedback)
  \/ \E actor \in users, cn \in ClassFilters, subj \in SubjectFilters :
        get_assignments(actor, cn, subj)
  \/ \E actor \in users : get_student_assignments(actor)

SpecCoursework == Init /\ [][NextCoursework]_vars

\* Intakes served concurrently: the intake of auth.py as its two steps,
\* beside the review that takes requests out of pending.
RaceCandidates ==
  { c \in Candidates : c.username = "john" /\ c.role = "teacher"
                         /\ c.email.local = "john" }

NextIntakeRace ==
  \/ \E w \in Workers, c \in RaceCandidates : auth_intake_check(w, c)
  \/ \E w \in Workers : auth_intake_commit(w)
  \/ \E actor \in users, id \in RequestIds, d \in {"approved", "rejected"} :
        auth_process_registration_request(actor, id, d)

SpecIntakeRace == Init /\ [][NextIntakeRace]_vars

\* Reviews served concurrently: each review handler as its two steps, on
\* requests taken in one at a time.
NextReviewRace ==
  \/ \E c \in EnrolCandidates : auth_create_registration_request(c)
  \/ \E w \in Workers, actor \in users, id \in RequestIds,
         d \in {"approved", "rejected"} : auth_process_check(w, actor, id, d)
  \/ \E w \in Workers, actor \in users, id \in RequestIds : rr_approve_check(w, actor, id)
  \/ \E w \in Workers, actor \in users, id \in RequestIds : rr_reject_check(w, actor, id)
  \/ \E w \in Workers : auth_process_commit(w)
  \/ \E w \in Workers : rr_approve_commit(w)
  \/ \E w \in Workers : rr_reject_commit(w)

SpecReviewRace == Init /\ [][NextReviewRace]_vars

\* The whole service, each request served from start to end before the next.
Next == NextEnrol \/ NextAssignments \/ NextMessaging \/ NextReads

Spec == Init /\ [][Next]_vars

(* =============================== claims ================================ *)
RoleOf(id) == (CHOOSE u \in users : u.id = id).role

\* C1: for every assignment a and student s the store never holds two
\* submissions with (assignment_id = a, student_id = s), also when two
\* submit calls of the same student interleave between check and insert.
C1_OneSubmissionPerPair ==
  \A s1, s2 \in submissions :
     (s1.assignment_id = s2.assignment_id /\ s1.student_id = s2.student_id)
       => s1 = s2

\* C2: a student's submit on an existing assignment succeeds and stores
\* exactly one submission when the student has none for it, and ends in
\* Conflict and stores nothing when the student has one (on both submit
\* routes); no operation removes a submission in between.
C2_SubmitThenConflict ==
  [][ /\ \A actor \in users, aid \in AssignmentIds :
           ( /\ actor.role = "student"
             /\ AssignmentExists(aid)
             /\ \/ students_submit_assignment(actor, aid)
                \/ assignments_submit_assignment(actor, aid) )
           => IF AlreadySubmitted(aid, actor.id)
                THEN last'.result = "Conflict" /\ submissions' = submissions
                ELSE /\ last'.result = "ok"
                     /\ Cardinality(submissions') = Cardinality(submissions) + 1
                     /\ \E s \in submissions' \ submissions :
                           s.assignment_id = aid /\ s.student_id = actor.id
      /\ \A s \in submissions : \E t \in submissions' :
            /\ t.id = s.id
            /\ t.assignment_id = s.assignment_id /\ t.student_id = s.student_id
    ]_vars

ReviewOps == {"process", "approve", "reject"}

ReviewCall(actor, id) ==
  \/ \E d \in Decisions : auth_process_registration_request(actor, id, d)
  \/ rr_approve_registration_request(actor, id)
  \/ rr_reject_registration_request(actor, id)

\* C3: a review (process with any decision, approve or reject) called by an
\* admin right after a successful review of the same request ends in
\* Conflict, and a status that has left pending never changes again.
C3_ReviewTwice ==
  [][ /\ \A actor \in users, id \in RequestIds :
           ( /\ last.op \in ReviewOps /\ last.target = id /\ last.result = "ok"
             /\ actor.role = "admin"
             /\ ReviewCall(actor, id) )
           => last'.result = "Conflict"
      /\ \A r \in requests : r.status # "pending" =>
           \A r2 \in requests' : r2.id = r.id => r2.status = r.status
    ]_vars

RequestStatuses == {"pending", "approved", "rejected"}

\* C4: every registration request's status is pending, approved or
\* rejected, and the only status changes are pending -> approved and
\* pending -> rejected, whatever decision the admin passes.
C4_StatusLifecycle ==
  /\ [](\A r \in requests : r.status \in RequestStatuses)
  /\ [][ \A r \in requests, r2 \in requests' :
           (r2.id = r.id /\ r2.status # r.status)
             => r.status = "pending" /\ r2.status \in {"approved", "rejected"}
       ]_vars

\* C8: on both intake routes, intake ends in Conflict exactly when a User
\* holds the candidate's username or email or a pending request exists for
\* that username or email; otherwise it stores a new pending request.
C8_IntakeConflict ==
  [][ \A c \in Candidates :
        (auth_create_registration_request(c) \/ rr_create_registration_request(c))
        => IF \/ \E u \in users : u.username = c.username \/ u.email = c.email
              \/ \E r \in requests : /\ r.status = "pending"
                                     /\ r.username = c.username \/ r.email = c.email
             THEN last'.result = "Conflict" /\ requests' = requests
             ELSE /\ last'.result = "ok"
                  /\ \E r \in requests' \ requests :
                        /\ r.username = c.username /\ r.email = c.email
                        /\ r.status = "pending"
    ]_vars

\* C9: after any sequence of intake, review and delete calls served one at
\* a time, no two pending requests share a username or an email.
C9_OnePendingPerIdentity ==
  \A r1, r2 \in requests :
     (r1.id # r2.id /\ r1.status = "pending" /\ r2.status = "pending")
       => r1.username # r2.username /\ r1.email # r2.email

ApprovalCall(actor, id) ==
  \/ auth_process_registration_request(actor, id, "approved")
  \/ rr_approve_registration_request(actor, id)

\* C10: every approval that succeeds creates a User whose username no
\* existing User holds; an approval of a pending request whose derived
\* base (the local part of its email) is already a User's name succeeds
\* with the base plus a numeric suffix; no two Users share a username.
C10_UniqueUsernameOnApproval ==
  /\ [](\A u, v \in users : u.username = v.username => u = v)
  /\ [][ \A actor \in users, id \in RequestIds :
           ( /\ actor.role = "admin"
             /\ \E r \in requests : r.id = id /\ r.status = "pending"
             /\ ApprovalCall(actor, id) )
           => /\ last'.result = "ok" =>
                   \E u \in users' \ users : ~ UsernameTaken(u.username)
              /\ ( /\ UsernameTaken(EmailLocalPart(RequestById(id).email))
                   /\ ~ \E u \in users : u.email = RequestById(id).email )
                 => /\ last'.result = "ok"
                    /\ \E u \in users' \ users :
                          u.username = UniqueUsernameFrom(EmailLocalPart(RequestById(id).email), 1)
       ]_vars

Roles == {"admin", "teacher", "student", "parent"}

\* The authorization table of the role gates: operation -> roles let through.
TableAllows(op) ==
  CASE op = "create_assignment" -> {"admin", "teacher"}
    [] op = "submit" -> {"student"}
    [] op \in {"view_submissions", "grade"} -> {"admin", "teacher"}
    [] op \in {"view_requests", "process"} -> {"admin"}
    [] op = "get_all_users" -> {"admin"}
    [] op = "send_message" -> Roles

\* the call A is refused with Forbidden in the current state
IsForbidden(A) == ENABLED (A /\ last'.result = "Forbidden")

\* the call A is not refused with Forbidden in the current state
NotForbidden(A) == ENABLED (A /\ last'.result # "Forbidden")

\* teacher u does not own assignment aid
TeacherNotOwner(u, aid) ==
  /\ u.role = "teacher"
  /\ AssignmentExists(aid)
  /\ AssignmentById(aid).created_by_id # u.id

\* The handler Op decides as row op of the table: a role outside the row
\* gets Forbidden and nothing else; a role inside the row gets Forbidden
\* only where OwnerTest says the ownership test refuses.
GateAsTable(op, Op(_), OwnerTest(_)) ==
  \A u \in users :
     IF u.role \in TableAllows(op)
       THEN IsForbidden(Op(u)) => OwnerTest(u)
       ELSE IsForbidden(Op(u)) /\ ~ NotForbidden(Op(u))

GatesOnAssignments ==
  /\ \A data \in AssignmentData :
        /\ GateAsTable("create_assignment",
                       LAMBDA u : teachers_create_assignment(u, data),
                       LAMBDA u : FALSE)
        /\ GateAsTable("create_assignment",
                       LAMBDA u : assignments_create_assignment(u, data),
                       LAMBDA u : FALSE)
  /\ \A aid \in AssignmentIds :
        /\ GateAsTable("submit",
                       LAMBDA u : students_submit_assignment(u, aid),
                       LAMBDA u : FALSE)
        /\ GateAsTable("submit",
                       LAMBDA u : assignments_submit_assignment(u, aid),
                       LAMBDA u : FALSE)
        /\ GateAsTable("view_submissions",
                       LAMBDA u : teachers_get_assignment_submissions(u, aid),
                       LAMBDA u : TeacherNotOwner(u, aid))
        /\ GateAsTable("view_submissions",
                       LAMBDA u : assignments_get_assignment_submissions(u, aid),
                       LAMBDA u : FALSE)
  /\ \A sid \in SubmissionIds, g \in GradeData :
        GateAsTable("grade",
                    LAMBDA u : grade_submission(u, sid, g.grade, g.feedback),
                    LAMBDA u : \E s \in submissions :
                                  s.id = sid /\ TeacherNotOwner(u, s.assignment_id))

GatesOnRegistration ==
  /\ GateAsTable("view_requests",
                 LAMBDA u : auth_get_registration_requests(u), LAMBDA u : FALSE)
  /\ \A id \in RequestIds :
        /\ GateAsTable("view_requests",
                       LAMBDA u : rr_get_registration_request(u, id), LAMBDA u : FALSE)
        /\ \A d \in Decisions :
              GateAsTable("process",
                          LAMBDA u : auth_process_registration_request(u, id, d),
                          LAMBDA u : FALSE)
        /\ GateAsTable("process",
                       LAMBDA u : rr_approve_registration_request(u, id),
                       LAMBDA u : FALSE)
        /\ GateAsTable("process",
                       LAMBDA u : rr_reject_registration_request(u, id),
                       LAMBDA u : FALSE)

\* C5: for every role and every operation of the table, the handler's role
\* gate decides as the table says: a caller whose role is outside the
\* operation's row gets Forbidden, and a caller whose role is inside it is
\* refused with Forbidden only by the ownership test (a teacher and another
\* user's assignment).
C5_RoleGatesMatchTable ==
  /\ GatesOnAssignments
  /\ GatesOnRegistration
  /\ GateAsTable("get_all_users", LAMBDA u : get_all_users(u), LAMBDA u : FALSE)
  /\ \A rid \in ReceiverIds \ {0} :
        GateAsTable("send_message", LAMBDA u : send_message(u, rid), LAMBDA u : FALSE)

C5_Witness ==
  /\ last.op = "grade" /\ last.result = "Forbidden"
  /\ RoleOf(last.actor) = "student"
  /\ \E s \in submissions : s.id = last.target

\* if a teacher, student or parent is let through, so is every admin
AdminAtLeast(Op(_)) ==
  (\E u \in users : u.role # "admin" /\ NotForbidden(Op(u)))
    => \A a \in users : a.role = "admin" => NotForbidden(Op(a))

AdminAtLeastOnStaffRoutes ==
  /\ \A data \in AssignmentData :
        /\ AdminAtLeast(LAMBDA u : teachers_create_assignment(u, data))
        /\ AdminAtLeast(LAMBDA u : assignments_create_assignment(u, data))
  /\ \A aid \in AssignmentIds :
        /\ \A data \in AssignmentData :
              AdminAtLeast(LAMBDA u : update_assignment(u, aid, data))
        /\ AdminAtLeast(LAMBDA u : delete_assignment(u, aid))
        /\ AdminAtLeast(LAMBDA u : teachers_get_assignment_submissions(u, aid))
        /\ AdminAtLeast(LAMBDA u : assignments_get_assignment_submissions(u, aid))
        /\ AdminAtLeast(LAMBDA u : get_assignment(u, aid))
  /\ \A sid \in SubmissionIds, g \in GradeData :
        AdminAtLeast(LAMBDA u : grade_submission(u, sid, g.grade, g.feedback))
  /\ \A id \in RequestIds :
        /\ \A d \in Decisions :
              AdminAtLeast(LAMBDA u : auth_process_registration_request(u, id, d))
        /\ AdminAtLeast(LAMBDA u : rr_approve_registration_request(u, id))
        /\ AdminAtLeast(LAMBDA u : rr_reject_registration_request(u, id))
        /\ AdminAtLeast(LAMBDA u : rr_delete_registration_request(u, id))
        /\ AdminAtLeast(LAMBDA u : rr_get_registration_request(u, id))
  /\ AdminAtLeast(LAMBDA u : get_all_users(u))
  /\ AdminAtLeast(LAMBDA u : auth_get_registration_requests(u))
  /\ AdminAtLeast(LAMBDA u : get_teacher_assignments(u))
  /\ \A rid \in ReceiverIds : AdminAtLeast(LAMBDA u : send_message(u, rid))

AdminAtLeastOnStudentRoutes ==
  /\ \A aid \in AssignmentIds :
        /\ AdminAtLeast(LAMBDA u : students_submit_assignment(u, aid))
        /\ AdminAtLeast(LAMBDA u : assignments_submit_assignment(u, aid))
  /\ \A rid \in ReceiverIds : AdminAtLeast(LAMBDA u : send_message_to_teacher(u, rid))
  /\ AdminAtLeast(LAMBDA u : get_student_assignments(u))
  /\ AdminAtLeast(LAMBDA u : get_student_submissions(u))

AdminAtLeastOnMessages ==
  \A mid \in MessageIds :
     /\ AdminAtLeast(LAMBDA u : get_message(u, mid))
     /\ AdminAtLeast(LAMBDA u : mark_message_as_read(u, mid))

\* C6 as stated: on every operation and every resource (submit assignment
\* and send-to-teacher included), if some teacher, student or parent is
\* allowed then an admin is allowed too.
C6_AdminNeverDenied ==
  /\ AdminAtLeastOnStaffRoutes
  /\ AdminAtLeastOnStudentRoutes
  /\ AdminAtLeastOnMessages

\* C6 amended: on every operation on assignments, submissions, registration
\* requests and users, and on send message, an admin is allowed whenever a
\* teacher, student or parent is; the routes gated to students (submit
\* assignment, the student listings) and to students and parents
\* (send-to-teacher) answer every admin with Forbidden.
C6_AdminNeverDeniedOffStudentRoutes ==
  /\ AdminAtLeastOnStaffRoutes
  /\ \A a \in users : a.role = "admin" =>
        /\ \A aid \in AssignmentIds :
              /\ ~ NotForbidden(students_submit_assignment(a, aid))
              /\ ~ NotForbidden(assignments_submit_assignment(a, aid))
        /\ \A rid \in ReceiverIds : ~ NotForbidden(send_message_to_teacher(a, rid))
        /\ ~ NotForbidden(get_student_assignments(a))
        /\ ~ NotForbidden(get_student_submissions(a))

C6_Witness ==
  /\ last.op = "update_assignment" /\ last.result = "ok"
  /\ RoleOf(last.actor) = "admin"
  /\ AssignmentExists(last.target)
  /\ RoleOf(AssignmentById(last.target).created_by_id) = "teacher"

LastActorIsParty ==
  \E m \in messages :
     m.id = last.target /\ last.actor \in {m.sender_id, m.receiver_id}

ListSubmissionsOps == {"teachers_view_submissions", "assignments_view_submissions"}

\* C11: on every route that lists an assignment's submissions, the list is
\* returned only to an admin or to the teacher who created the assignment;
\* a teacher who did not create it gets Forbidden.
C11_ListSubmissionsOwnerOnly ==
  (last.op \in ListSubmissionsOps /\ AssignmentExists(last.target)) =>
     /\ last.result = "ok" =>
          \/ RoleOf(last.actor) = "admin"
          \/ AssignmentById(last.target).created_by_id = last.actor
     /\ ( /\ RoleOf(last.actor) = "teacher"
          /\ AssignmentById(last.target).created_by_id # last.actor )
        => last.result = "Forbidden"

\* actor is an admin, or the teacher who created the parent assignment of
\* the stored submission sid
MayGrade(actor, sid) ==
  \E s \in submissions :
     /\ s.id = sid
     /\ \/ actor.role = "admin"
        \/ /\ actor.role = "teacher"
           /\ AssignmentExists(s.assignment_id)
           /\ AssignmentById(s.assignment_id).created_by_id = actor.id

\* C12: grade changes the grade and feedback of a submission only when the
\* caller is an admin or the teacher who created the submission's parent
\* assignment, and then sets both as sent; a teacher or admin naming an id
\* under which no submission is stored gets NotFound, every other caller of
\* a stored submission gets Forbidden (a student or parent gets Forbidden
\* from the role gate for any id), and a call that ends in an error leaves
\* every submission as it was.  No other operation changes a grade or a
\* feedback.
C12_GradeOnlyByOwnerOrAdmin ==
  [][ /\ \A actor \in users, sid \in SubmissionIds, g \in GradeData :
           grade_submission(actor, sid, g.grade, g.feedback) =>
             IF MayGrade(actor, sid)
               THEN /\ last'.result = "ok"
                    /\ submissions' = (submissions \ {SubmissionById(sid)}) \cup
                         {[SubmissionById(sid) EXCEPT !.grade = g.grade,
                                                      !.feedback = g.feedback]}
               ELSE /\ submissions' = submissions
                    /\ IF actor.role \in {"admin", "teacher"}
                          /\ ~ \E s \in submissions : s.id = sid
                         THEN last'.result = "NotFound"
                         ELSE last'.result = "Forbidden"
      /\ \A s \in submissions, t \in submissions' :
           (t.id = s.id /\ (t.grade # s.grade \/ t.feedback # s.feedback))
             => /\ last'.op = "grade" /\ last'.result = "ok" /\ last'.target = s.id
                /\ \E u \in users : u.id = last'.actor /\ MayGrade(u, s.id)
    ]_vars

C12_Witness ==
  /\ last.op = "grade" /\ last.result = "Forbidden"
  /\ RoleOf(last.actor) = "teacher"
  /\ \E s \in submissions : s.id = last.target /\ AssignmentExists(s.assignment_id)

\* C13: update and delete called by anyone but an admin or the assignment's
\* creator end in NotFound when no assignment has the id and in Forbidden
\* otherwise, and leave every assignment as it was; an assignment is
\* changed or removed only by an update or delete that an admin or its
\* creator called.
C13_ChangeOnlyByOwnerOrAdmin ==
  [][ /\ \A actor \in users, aid \in AssignmentIds :
           ( /\ \/ \E data \in AssignmentData : update_assignment(actor, aid, data)
                \/ delete_assignment(actor, aid)
             /\ ~ ( /\ AssignmentExists(aid)
                    /\ \/ actor.role = "admin"
                       \/ AssignmentById(aid).created_by_id = actor.id ) )
           => /\ assignments' = assignments
              /\ last'.result = IF AssignmentExists(aid) THEN "Forbidden" ELSE "NotFound"
      /\ \A a \in assignments : a \notin assignments' =>
           /\ last'.op \in {"update_assignment", "delete_assignment"}
           /\ last'.result = "ok" /\ last'.target = a.id
           /\ RoleOf(last'.actor) = "admin" \/ a.created_by_id = last'.actor
    ]_vars

C13_Witness ==
  /\ last.op = "update_assignment" /\ last.result = "Forbidden"
  /\ RoleOf(last.actor) = "teacher"
  /\ AssignmentExists(last.target)
  /\ AssignmentById(last.target).created_by_id # last.actor

\* classes a student may be in
StudentClasses == {"10A", "10B"}

\* what the claim says a listing returns: all for an admin, the own ones
\* for a teacher, for a student of class cn those of cn and of "all"; then
\* the subject filter when one is sent
ListExpected(actor, cn, subject) ==
  LET base == IF actor.role = "student"
                THEN {a \in assignments : a.class_name = cn \/ a.class_name = "all"}
              ELSE IF actor.role = "teacher"
                THEN {a \in assignments : a.created_by_id = actor.id}
              ELSE assignments
  IN IF subject # NoFilter THEN {a \in base : a.subject = subject} ELSE base

\* C14: a listing returns exactly: for an admin all assignments, for a
\* teacher those the teacher created, for a student those whose class_name
\* is the student's class or "all" (whichever class the student is in, on
\* the route of assignments.py and on the route of students.py), in each
\* case cut down by the subject filter when one is sent.
C14_ListByRole ==
  [][ /\ \A actor \in users, cn \in ClassFilters, subj \in SubjectFilters :
           ( /\ actor.role \in {"admin", "teacher", "student"}
             /\ get_assignments(actor, cn, subj) )
           => last'.listed = ListExpected(actor, cn, subj)
      /\ \A actor \in users, cn \in StudentClasses :
           (actor.role = "student" /\ get_student_assignments(actor))
           => last'.listed = ListExpected(actor, cn, NoFilter)
    ]_vars

\* actor is the receiver of the stored message mid
IsReceiver(actor, mid) ==
  \E m \in messages : m.id = mid /\ m.receiver_id = actor.id

\* C15: markRead sets is_read when the caller is the message's receiver and
\* ends in Forbidden, changing nothing, for every other caller, the sender
\* included; no operation changes another field of a stored message and no
\* operation removes one.
C15_MarkReadByReceiverOnly ==
  [][ /\ \A actor \in users, mid \in MessageIds :
           mark_message_as_read(actor, mid) =>
             IF IsReceiver(actor, mid)
               THEN /\ last'.result = "ok"
                    /\ \E m \in messages' : m.id = mid /\ m.is_read
               ELSE /\ last'.result = "Forbidden"
                    /\ messages' = messages
      /\ \A m \in messages :
           \/ m \in messages'
           \/ /\ [m EXCEPT !.is_read = TRUE] \in messages'
              /\ last'.op = "mark_read" /\ last'.target = m.id
              /\ last'.actor = m.receiver_id
    ]_vars

\* the user send-to-teacher picks for receiver id rid (0: none named)
TeacherFor(rid) ==
  IF rid # 0
    THEN {u \in users : u.id = rid /\ u.role = "teacher"}
    ELSE {u \in users : u.role = "teacher"}

\* C16: sendToTeacher succeeds only for a student or parent; a call of
\* theirs that names a receiver who is no teacher, or names none when no
\* teacher exists, ends in NotFound and stores nothing; every other call of
\* theirs stores one message whose receiver is a teacher.
C16_SendToTeacher ==
  [][ \A actor \in users, rid \in ReceiverIds :
        send_message_to_teacher(actor, rid) =>
          IF actor.role \notin {"student", "parent"}
            THEN last'.result # "ok" /\ messages' = messages
          ELSE IF TeacherFor(rid) = {}
            THEN last'.result = "NotFound" /\ messages' = messages
          ELSE /\ last'.result = "ok"
               /\ \E m \in messages' \ messages :
                     /\ m.sender_id = actor.id
                     /\ \E t \in TeacherFor(rid) : m.receiver_id = t.id
               /\ messages \subseteq messages'
    ]_vars

TypedOutcomes == {"ok", "Forbidden", "NotFound", "Conflict"}

\* C17: every review call (process, approve, reject) ends in success,
\* Forbidden, NotFound or Conflict, also when it approves a pending request
\* whose username or email a User already holds.
C17_ReviewOutcomesTyped ==
  last.op \in ReviewOps => last.result \in TypedOutcomes

\* C18: every User's role is admin, teacher, student or parent, whatever
\* role string an intake supplied and whichever route approved the request.
C18_UserRolesValid ==
  \A u \in users : u.role \in Roles

\* C20: a registration request has processed_at set if and only if its
\* status is not pending, whichever review route processed it.
C20_ProcessedIffNotPending ==
  \A r \in requests : r.processed <=> r.status # "pending"

\* C19: with the existence check and the insert of an intake as separate
\* steps, the insert of an intake that has passed its check stores a
\* pending request for its email whatever has been stored meanwhile, so
\* two intakes for the same email that both pass the check before either
\* commits leave two pending requests for that email.
C19_IntakeInsertsAfterCheck ==
  [][ \A w \in Workers, q \in inflight :
        (q.worker = w /\ auth_intake_commit(w))
        => /\ last'.result = "ok"
           /\ \E r \in requests' \ requests :
                 /\ r.email = q.candidate.email
                 /\ r.username = q.candidate.username
                 /\ r.status = "pending"
    ]_vars

C19_Witness ==
  /\ last.op = "auth_intake" /\ last.result = "ok"
  /\ \E r1, r2 \in requests :
        /\ r1.id # r2.id /\ r1.email = r2.email
        /\ r1.status = "pending" /\ r2.status = "pending"

C22_GradeIdempotentOverwrite ==
  [][ \A actor \in users, sid \in SubmissionIds, g \in GradeData :
        ( /\ MayGrade(actor, sid)
          /\ SubmissionById(sid).grade # "none"
          /\ grade_submission(actor, sid, g.grade, g.feedback) )
        => /\ last'.result = "ok"
           /\ \E t \in submissions' :
                 t.id = sid /\ t.grade = g.grade /\ t.feedback = g.feedback
           /\ Cardinality(submissions') = Cardinality(submissions)
           /\ ( /\ SubmissionById(sid).grade = g.grade
                /\ SubmissionById(sid).feedback = g.feedback )
              => store' = store
    ]_vars

C22_Witness ==
  /\ last.op = "grade" /\ last.result = "ok"
  /\ \E s \in submissions : s.id = last.target /\ s.grade = "B" /\ s.feedback = "good"

RefusedOutcomes == {"Forbidden", "NotFound", "Conflict"}

\* C23: a call that ends in Forbidden, NotFound or Conflict leaves users,
\* assignments, submissions, messages and registration requests exactly as
\* they were before it.
C23_RefusalLeavesStore ==
  [][ last'.result \in RefusedOutcomes => store' = store ]_vars

C23_Witness ==
  /\ last.op = "students_submit" /\ last.result = "Conflict"
  /\ AlreadySubmitted(last.target, last.actor)

\* C24: also when review calls on one pending request interleave between
\* the status test and the commit, an account is created for a request
\* only when no account with the request's username and email exists (so
\* at most once), and a request that has been approved, with its account
\* created, never becomes rejected.
C24_ReviewRaceExclusive ==
  [][ \A r \in requests, r2 \in requests' :
        r2.id = r.id =>
          /\ (users' # users /\ last'.target = r.id)
               => ~ \E u \in users : u.username = r.username /\ u.email = r.email
          /\ r.status = "approved" => r2.status # "rejected"
    ]_vars

(* ------------------------------- C25 ---------------------------------- *)
\* The account a step adds for request r: its username, email and role.
AccountOf(r, u) ==
  u.username = r.username /\ u.email = r.email /\ u.role = r.role

\* C25: the set of users only grows and no stored user changes (every user
\* of the old state is in the new state with the same id, username, email
\* and role); a step that adds a user is a successful review call of an
\* admin on a request that was pending before the step and is approved
\* after it, and it adds exactly the account of that request.
C25_UsersGrowOnlyByAdminApproval ==
  [][ /\ users \subseteq users'
      /\ users' # users =>
           /\ last'.result = "ok"
           /\ last'.op \in {"process", "approve"}
           /\ \E a \in users : a.id = last'.actor /\ a.role = "admin"
           /\ \E r \in requests :
                /\ r.id = last'.target
                /\ r.status = "pending"
                /\ \E r2 \in requests' : r2.id = r.id /\ r2.status = "approved"
                /\ Cardinality(users' \ users) = 1
                /\ \A u \in users' \ users : AccountOf(r, u)
    ]_vars

\* an account beyond the seed exists, made by a successful review call
C25_Witness ==
  /\ users # SeedUsers
  /\ last.op = "process" /\ last.result = "ok"
  /\ \E r \in requests : r.id = last.target /\ r.status = "approved"
                           /\ \E u \in users \ SeedUsers : AccountOf(r, u)

C27_OwnersHaveTheirRole ==
  /\ \A a \in assignments :
        \E u \in users : u.id = a.created_by_id /\ u.role \in {"teacher", "admin"}
  /\ \A s \in submissions :
        \E u \in users : u.id = s.student_id /\ u.role = "student"

\* an assignment and a submission to it are stored
C27_Witness ==
  \E a \in assignments, s \in submissions :
     /\ s.assignment_id = a.id
     /\ \E u \in users : u.id = a.created_by_id
     /\ \E u \in users : u.id = s.student_id

(* ------------------------------- C28 ---------------------------------- *)
\* the stored messages received by user id uid and not yet read
UnreadOf(uid) == {m \in messages : m.receiver_id = uid /\ ~ m.is_read}

\* C28: a message is stored with is_read false and is_read never goes back
\* to false; an unread-count call answers with the number of stored unread
\* messages whose receiver is the caller; a successful markRead on an
\* unread message lowers the receiver's number by one, on a read message it
\* changes nothing; a successful send raises the receiver's number by one.
C28_UnreadCountTracksMessages ==
  [][ /\ \A n \in messages' :
           IF \E m \in messages : m.id = n.id
             THEN \A m \in messages : (m.id = n.id /\ m.is_read) => n.is_read
             ELSE ~ n.is_read
      /\ \A actor \in users :
           get_unread_count(actor) =>
             /\ last'.result = "ok"
             /\ last'.count = Cardinality(UnreadOf(actor.id))
      /\ \A actor \in users, mid \in MessageIds :
           (mark_message_as_read(actor, mid) /\ last'.result = "ok") =>
             IF \E m \in UnreadOf(actor.id) : m.id = mid
               THEN Cardinality(UnreadOf(actor.id)') = Cardinality(UnreadOf(actor.id)) - 1
               ELSE messages' = messages
      /\ \A actor \in users, rid \in ReceiverIds \ {0} :
           (send_message(actor, rid) /\ last'.result = "ok") =>
             Cardinality(UnreadOf(rid)') = Cardinality(UnreadOf(rid)) + 1
    ]_vars

(* ------------------------------- C29 ---------------------------------- *)
\* The requests whose e-mail local part runs the derivation loop of approve
\* zero, one and two times beside the seeded accounts: "teacher" is free
\* until an account of that name is approved, "teacher1" is seeded.
DeriveCandidates ==
  [username : {"teacher", "john"},
   email    : {Email("teacher", "a.com"), Email("teacher", "b.com"),
               Email("john", "a.com")},
   role     : {"teacher"}]

\* Intake, the review that creates accounts, and approve.
NextDerive ==
  \/ \E c \in DeriveCandidates : rr_create_registration_request(c)
  \/ \E actor \in users, id \in RequestIds :
        auth_process_registration_request(actor, id, "approved")
  \/ \E actor \in users, id \in RequestIds : rr_approve_registration_request(actor, id)

SpecDerive == Init /\ [][NextDerive]_vars

\* C29: for every pending request the derivation loop of approve ends
\* within as many rounds as there are users, and the username it yields is
\* held by no user: it is the e-mail's local part when no user holds that,
\* otherwise the local part followed by the smallest k >= 1 such that no
\* user holds local part + k.
C29_DerivedUsernameSmallestFree ==
  \A r \in requests :
     r.status = "pending" =>
       LET l == EmailLocalPart(r.email)
           d == DeriveUsername(r.email)
       IN /\ ~ UsernameTaken(d)
          /\ IF ~ UsernameTaken(l)
               THEN d = l
               ELSE \E k \in 1..Cardinality(users) :
                       /\ d = l \o ToString(k)
                       /\ \A j \in 1..(k - 1) : UsernameTaken(l \o ToString(j))

\* approve has just run its loop on a pending request whose local part and
\* whose local part + 1 are both held, so that the loop went round twice
C29_Witness ==
  /\ last.op = "approve" /\ last.result = "error"
  /\ \E r \in requests :
        /\ r.id = last.target /\ r.status = "pending"
        /\ UsernameTaken(EmailLocalPart(r.email))
        /\ UsernameTaken(EmailLocalPart(r.email) \o ToString(1))
        /\ DeriveUsername(r.email) = EmailLocalPart(r.email) \o ToString(2)

====
